---- MODULE Spec2Model ----
(***************************************************************************)
(* Model of src/ndvi.ts: ndviGen (authentication gate + runAnalysis) and   *)
(* get_polygon_centroid.  Coordinates are integers on a small grid; the    *)
(* results of JavaScript divisions are exact rationals or the IEEE special *)
(* values NaN / +Infinity / -Infinity.                                     *)
(***************************************************************************)
EXTENDS Integers, Sequences, FiniteSets, TLC

VARIABLES
    polygon,       \* the caller-owned array of {lng, lat}
    polygon0,      \* the caller's array as it was when ndviGen was called
    width,         \* caller-supplied target width (a JS number)
    pc,            \* position of the invocation
    authResult,    \* which callback of authenticateViaPrivateKey ran
    authCount,     \* calls of ee.data.authenticateViaPrivateKey
    runCount,      \* calls of runAnalysis
    calls,         \* external collaborator calls, in order
    firstResult,   \* what collection.first() yielded
    centroidCalls, \* values returned by successive get_polygon_centroid calls
    clipRing,      \* ring handed to ee.Geometry.Polygon for clip()
    regionRing,    \* ring handed to ee.Geometry.Polygon for getThumbURL()
    promiseState,  \* "pending", "resolved" or "rejected"
    settleCount,   \* calls of resolve / reject
    rejectReason,  \* rejection value
    ret            \* resolution value: <<>> or <<record>>

vars == <<polygon, polygon0, width, pc, authResult, authCount,
          runCount, calls, firstResult, centroidCalls, clipRing, regionRing,
          promiseState, settleCount, rejectReason, ret>>

----------------------------------------------------------------------------
(* Bounds *)

MaxLng == 2
MaxLat == 1
MaxLen == 3
MaxW2 == 2
MaxG == 1
MaxN == 4
MaxCalls == 2

----------------------------------------------------------------------------
(* JavaScript numbers *)

Abs(x) == IF x < 0 THEN -x ELSE x

RECURSIVE GCD(_, _)
GCD(a, b) == IF b = 0 THEN a ELSE GCD(b, a % b)

NaN == [k |-> "nan", n |-> 0, d |-> 1]
PosInf == [k |-> "inf", n |-> 1, d |-> 1]
NegInf == [k |-> "ninf", n |-> -1, d |-> 1]

\* the finite number n/d (d # 0), in lowest terms with a positive denominator
Fin(n, d) ==
    LET g == GCD(Abs(n), Abs(d))
        s == IF d < 0 THEN -1 ELSE 1
    IN  [k |-> "fin", n |-> (s * n) \div g, d |-> (s * d) \div g]

IsFin(x) == x.k = "fin"

\* x * i for a JS number x and an integer i
JSMulInt(x, i) == IF IsFin(x) THEN Fin(x.n * i, x.d) ELSE x

\* x / i : division by zero yields NaN or a signed Infinity
JSDivInt(x, i) ==
    IF ~IsFin(x) THEN x
    ELSE IF i = 0
         THEN IF x.n = 0 THEN NaN ELSE IF x.n > 0 THEN PosInf ELSE NegInf
         ELSE Fin(x.n, x.d * i)

\* x + i
JSAddInt(x, i) == IF IsFin(x) THEN Fin(x.n + i * x.d, x.d) ELSE x

MathRoundFloor(x) == IF IsFin(x) THEN Fin(x.n \div x.d, 1) ELSE x

\* Math.round: nearest integer, ties towards +Infinity
MathRound(x) == IF IsFin(x) THEN Fin((2 * x.n + x.d) \div (2 * x.d), 1) ELSE x

SetMax(S) == CHOOSE x \in S : \A y \in S : y <= x
SetMin(S) == CHOOSE x \in S : \A y \in S : x <= y

----------------------------------------------------------------------------
(* get_polygon_centroid *)

ClosePtsAlways(pts) == Append(pts, pts[1])

\* lines 234-236: push the first point when first and last differ
ClosePts(pts) ==
    LET first == pts[1]
        last == pts[Len(pts)]
    IN  IF first.lng # last.lng \/ first.lat # last.lat
        THEN Append(pts, first)
        ELSE pts

\* lines 244-253: the accumulation loop, iterations 1..i (j is i's predecessor)
RECURSIVE CentroidLoop(_, _, _)
CentroidLoop(pts, first, i) ==
    IF i = 0 THEN [area |-> 0, lng |-> 0, lat |-> 0]
    ELSE LET acc == CentroidLoop(pts, first, i - 1)
             p1 == pts[i]
             p2 == pts[IF i = 1 THEN Len(pts) ELSE i - 1]
             f == (p1.lat - first.lat) * (p2.lng - first.lng)
                  - (p2.lat - first.lat) * (p1.lng - first.lng)
         IN  [area |-> acc.area + f,
              lng |-> acc.lng + (p1.lng + p2.lng - 2 * first.lng) * f,
              lat |-> acc.lat + (p1.lat + p2.lat - 2 * first.lat) * f]

CentroidOfHalfDivisor(pts) ==
    LET first == pts[1]
        acc == CentroidLoop(pts, first, Len(pts))
        f == acc.area * 2
    IN  [lng |-> JSAddInt(JSDivInt(Fin(acc.lng, 1), f), first.lng),
         lat |-> JSAddInt(JSDivInt(Fin(acc.lat, 1), f), first.lat)]

\* lines 237-255 on the (closed) array
CentroidOf(pts) ==
    LET first == pts[1]
        acc == CentroidLoop(pts, first, Len(pts))
        f == acc.area * 3
    IN  [lng |-> JSAddInt(JSDivInt(Fin(acc.lng, 1), f), first.lng),
         lat |-> JSAddInt(JSDivInt(Fin(acc.lat, 1), f), first.lat)]

\* the whole function: the argument array after the call, and the result
get_polygon_centroid(pts) ==
    LET closed == ClosePts(pts)
    IN  [pts |-> closed, c |-> CentroidOf(closed)]

----------------------------------------------------------------------------
(* runAnalysis *)

CoordOfClosed(pts) ==
    LET c == ClosePts(pts) IN [i \in 1..Len(c) |-> <<c[i].lng, c[i].lat>>]

\* line 77: polygon.map(a => [a.lng, a.lat])
CoordOf(pts) == [i \in 1..Len(pts) |-> <<pts[i].lng, pts[i].lat>>]

\* lines 77-93 and 198-211, evaluated on the array as it is at entry
Analysis(pts, w) ==
    LET coord == CoordOf(pts)
        coordLng == {pts[i].lng : i \in 1..Len(pts)}
        coordLat == {pts[i].lat : i \in 1..Len(pts)}
        maxLng == SetMax(coordLng)
        minLng == SetMin(coordLng)
        maxLat == SetMax(coordLat)
        minLat == SetMin(coordLat)
        deltaLng == maxLng - minLng
        deltaLat == maxLat - minLat
        dimensionLng == MathRound(w)
        dimensionLat == MathRound(JSDivInt(JSMulInt(w, deltaLat), deltaLng))
        g1 == get_polygon_centroid(pts)
        g2 == get_polygon_centroid(g1.pts)
    IN  [coord |-> coord,
         pts |-> g2.pts,
         results |-> <<g1.c, g2.c>>,
         ret |-> [width |-> dimensionLng,
                  height |-> dimensionLat,
                  centroid |-> [lng |-> g1.c.lng, lat |-> g2.c.lat],
                  bounds |-> <<[lng |-> maxLng, lat |-> maxLat],
                               [lng |-> minLng, lat |-> minLat]>>,
                  time_start |-> "system:time_start",
                  time_end |-> "system:time_end",
                  index |-> "system:index",
                  img_url |-> "thumbURL"]]

\* external calls of lines 64-170
QueryCalls == <<"initialize", "Geometry.Point", "ImageCollection",
                "filterDate", "sort", "first", "Image">>
\* lines 172-181
VisCalls == <<"visualize", "Geometry.Polygon", "clip">>
\* lines 183-185
MetaCalls == <<"getInfo", "getInfo", "getInfo">>
\* lines 190-193
ThumbCalls == <<"Geometry.Polygon", "getThumbURL">>

\* what first() can yield: an image, a null handle (visualize on it throws),
\* or a deferred handle of an empty collection (getInfo on it throws)
FirstOutcomes == {"image", "null", "deferredEmpty"}

----------------------------------------------------------------------------
(* ndviGen *)

Pt(x, y) == [lng |-> x, lat |-> y]
Points == {Pt(x, y) : x \in 0..MaxLng, y \in 0..MaxLat}
Polygons == UNION {[1..n -> Points] : n \in 3..MaxLen}
Widths == {Fin(w2, 2) : w2 \in 0..MaxW2}

Init ==
    /\ polygon \in Polygons
    /\ polygon0 = polygon
    /\ width \in Widths
    /\ pc = "start"
    /\ authResult = "none"
    /\ authCount = 0
    /\ runCount = 0
    /\ calls = <<>>
    /\ firstResult = "none"
    /\ centroidCalls = <<>>
    /\ clipRing = <<>>
    /\ regionRing = <<>>
    /\ promiseState = "pending"
    /\ settleCount = 0
    /\ rejectReason = ""
    /\ ret = <<>>

NdviGenInitializeFirst ==
    /\ pc = "start"
    /\ pc' = "authenticating"
    /\ authCount' = authCount + 1
    /\ calls' = calls \o <<"initialize", "authenticate">>
    /\ UNCHANGED <<polygon, polygon0, width, authResult, runCount,
                   firstResult, centroidCalls, clipRing, regionRing,
                   promiseState, settleCount, rejectReason, ret>>

\* lines 217-219: the executor calls authenticateViaPrivateKey
NdviGen ==
    /\ pc = "start"
    /\ pc' = "authenticating"
    /\ authCount' = authCount + 1
    /\ calls' = Append(calls, "authenticate")
    /\ UNCHANGED <<polygon, polygon0, width, authResult, runCount,
                   firstResult, centroidCalls, clipRing, regionRing,
                   promiseState, settleCount, rejectReason, ret>>

\* the effect of runAnalysis(), whose computation is a, and of resolve() on
\* its value (lines 63-212, 221)
RunAndResolve(a, out) ==
    /\ runCount' = runCount + 1
    /\ firstResult' = out
    /\ polygon' = a.pts
    /\ centroidCalls' = centroidCalls \o a.results
    /\ CASE out = "null" ->
              /\ calls' = calls \o QueryCalls
              /\ pc' = "thrown"
              /\ UNCHANGED <<clipRing, regionRing, promiseState,
                             settleCount, rejectReason, ret>>
         [] out = "deferredEmpty" ->
              /\ calls' = calls \o QueryCalls \o VisCalls \o <<"getInfo">>
              /\ clipRing' = a.coord
              /\ pc' = "thrown"
              /\ UNCHANGED <<regionRing, promiseState, settleCount,
                             rejectReason, ret>>
         [] out = "image" ->
              /\ calls' = calls \o QueryCalls \o VisCalls \o MetaCalls
                            \o ThumbCalls
              /\ clipRing' = a.coord
              /\ regionRing' = a.coord
              /\ pc' = "done"
              /\ settleCount' = settleCount + 1
              /\ promiseState' = IF promiseState = "pending"
                                 THEN "resolved" ELSE promiseState
              /\ ret' = IF promiseState = "pending" THEN <<a.ret>> ELSE ret
              /\ UNCHANGED rejectReason

\* reject('Authentication error: ' + e) (line 224)
Reject ==
    /\ settleCount' = settleCount + 1
    /\ promiseState' = IF promiseState = "pending"
                       THEN "rejected" ELSE promiseState
    /\ rejectReason' = IF promiseState = "pending"
                       THEN "Authentication error" ELSE rejectReason

\* lines 220-222: the success callback, run when the service accepts devKey
AuthSuccess ==
    /\ pc = "authenticating"
    /\ authResult' = "ok"
    /\ LET a == Analysis(polygon, width)
       IN  \E out \in FirstOutcomes : RunAndResolve(a, out)
    /\ UNCHANGED <<polygon0, width, authCount>>

AuthErrorThenRun ==
    /\ pc = "authenticating"
    /\ authResult' = "failed"
    /\ LET a == Analysis(polygon, width)
       IN  \E out \in FirstOutcomes : RunAndResolve(a, out)
    /\ UNCHANGED <<polygon0, width, authCount>>

\* lines 223-225: the error callback, run when the service refuses devKey
AuthError ==
    /\ pc = "authenticating"
    /\ authResult' = "failed"
    /\ pc' = "failed"
    /\ Reject
    /\ UNCHANGED <<polygon, polygon0, width, authCount, runCount,
                   calls, firstResult, centroidCalls, clipRing, regionRing,
                   ret>>

Next == NdviGen \/ AuthSuccess \/ AuthError

Spec == Init /\ [][Next]_vars

----------------------------------------------------------------------------
(* get_polygon_centroid on its own: successive calls on one caller array *)

GridPoints == {Pt(x, y) : x \in 0..MaxG, y \in 0..MaxG}
GridPolygons == UNION {[1..n -> GridPoints] : n \in 3..MaxN}

InitCentroid ==
    /\ polygon \in GridPolygons
    /\ polygon0 = polygon
    /\ width = Fin(1, 1)
    /\ pc = "start"
    /\ authResult = "none"
    /\ authCount = 0
    /\ runCount = 0
    /\ calls = <<>>
    /\ firstResult = "none"
    /\ centroidCalls = <<>>
    /\ clipRing = <<>>
    /\ regionRing = <<>>
    /\ promiseState = "pending"
    /\ settleCount = 0
    /\ rejectReason = ""
    /\ ret = <<>>

\* one call get_polygon_centroid(polygon) (lines 233-256)
CallCentroid ==
    /\ Len(centroidCalls) < MaxCalls
    /\ LET g == get_polygon_centroid(polygon)
       IN  /\ polygon' = g.pts
           /\ centroidCalls' = Append(centroidCalls, g.c)
    /\ UNCHANGED <<polygon0, width, pc, authResult, authCount,
                   runCount, calls, firstResult, clipRing, regionRing,
                   promiseState, settleCount, rejectReason, ret>>

NextCentroid == CallCentroid

SpecCentroid == InitCentroid /\ [][NextCentroid]_vars

----------------------------------------------------------------------------
(* Geometry used to state the properties *)

IsClosedSeq(p) == p[1] = p[Len(p)]
ClosedCopy(p) == IF IsClosedSeq(p) THEN p ELSE p \o <<p[1]>>
RingOf(p) == IF IsClosedSeq(p) THEN SubSeq(p, 1, Len(p) - 1) ELSE p

LngSet(p) == {p[i].lng : i \in 1..Len(p)}
LatSet(p) == {p[i].lat : i \in 1..Len(p)}
ExtLng(p) == SetMax(LngSet(p)) - SetMin(LngSet(p))
ExtLat(p) == SetMax(LatSet(p)) - SetMin(LatSet(p))

Cross(o, a, b) ==
    (a.lng - o.lng) * (b.lat - o.lat) - (a.lat - o.lat) * (b.lng - o.lng)

\* twice the signed area of the ring r (shoelace formula)
RECURSIVE Shoelace(_, _)
Shoelace(r, i) ==
    IF i = 0 THEN 0
    ELSE LET a == r[i]
             b == r[IF i = Len(r) THEN 1 ELSE i + 1]
         IN  Shoelace(r, i - 1) + (a.lng * b.lat - b.lng * a.lat)
Area2(p) == LET r == RingOf(p) IN Shoelace(r, Len(r))

\* q lies on the segment a-b
OnSegment(a, b, q) ==
    /\ Cross(a, b, q) = 0
    /\ (a.lng <= q.lng /\ q.lng <= b.lng) \/ (b.lng <= q.lng /\ q.lng <= a.lng)
    /\ (a.lat <= q.lat /\ q.lat <= b.lat) \/ (b.lat <= q.lat /\ q.lat <= a.lat)

SegmentsMeet(a, b, c, d) ==
    \/ /\ Cross(c, d, a) * Cross(c, d, b) < 0
       /\ Cross(a, b, c) * Cross(a, b, d) < 0
    \/ OnSegment(c, d, a) \/ OnSegment(c, d, b)
    \/ OnSegment(a, b, c) \/ OnSegment(a, b, d)

\* the ring of p has >= 3 distinct vertices, non-zero area, and its edges
\* meet only at the vertex shared by consecutive edges
SimplePolygon(p) ==
    LET r == RingOf(p)
        n == Len(r)
        nxt(i) == IF i = n THEN 1 ELSE i + 1
    IN  /\ n >= 3
        /\ \A i, j \in 1..n : i # j => r[i] # r[j]
        /\ Area2(p) # 0
        /\ \A i, j \in 1..n :
              i < j =>
                IF nxt(i) = j
                THEN ~OnSegment(r[j], r[nxt(j)], r[i])
                     /\ ~OnSegment(r[i], r[j], r[nxt(j)])
                ELSE IF nxt(j) = i
                THEN ~OnSegment(r[i], r[nxt(i)], r[j])
                     /\ ~OnSegment(r[j], r[i], r[nxt(i)])
                ELSE ~SegmentsMeet(r[i], r[nxt(i)], r[j], r[nxt(j)])

Degenerate(p) == ExtLng(p) = 0 \/ ExtLat(p) = 0 \/ Area2(p) = 0

Terminal == {"done", "failed", "thrown"}
ImageQueryCalls ==
    {"initialize", "Geometry.Point", "ImageCollection", "filterDate", "sort",
     "first", "Image", "visualize", "Geometry.Polygon", "clip", "getInfo",
     "getThumbURL"}
CallSet == {calls[i] : i \in 1..Len(calls)}

----------------------------------------------------------------------------
(* Properties *)

\* C1: when credential verification fails, the promise is rejected with an
\* authentication error, runAnalysis is never invoked and no image-query
\* call (initialize ... getThumbURL) is made.
C1_AuthFailureRejects ==
    authResult = "failed" =>
        /\ promiseState = "rejected"
        /\ rejectReason = "Authentication error"
        /\ runCount = 0
        /\ centroidCalls = <<>>
        /\ CallSet \cap ImageQueryCalls = {}

C1_Witness == authResult = "failed" /\ pc = "failed" /\ settleCount = 1

\* C2: there is a single authentication attempt, no centroid/bounds work and
\* no imagery call happens before it has succeeded, and on success
\* runAnalysis is invoked exactly once.
C2_AuthBeforeRegionWork ==
    /\ authCount <= 1
    /\ runCount <= 1
    /\ \A i \in 2..Len(calls) : calls[i] # "authenticate"
    /\ (runCount > 0 \/ centroidCalls # <<>>
          \/ CallSet \cap ImageQueryCalls # {})
         => (authResult = "ok" /\ calls[1] = "authenticate")
    /\ authResult = "ok" => runCount = 1

C2_Witness ==
    authResult = "ok" /\ runCount = 1 /\ authCount = 1 /\ "getThumbURL" \in CallSet

\* C3: once the invocation has come to an end the promise has been settled
\* exactly once, and a failure of runAnalysis has become its rejection.
C3_SettlesExactlyOnce ==
    pc \in Terminal =>
        /\ promiseState \in {"resolved", "rejected"}
        /\ settleCount = 1
        /\ firstResult \in {"null", "deferredEmpty"} => promiseState = "rejected"

\* C4: a polygon with zero longitude extent, zero latitude extent or zero
\* area makes the operation fail with DegenerateGeometryError before any
\* collaborator call; it never resolves with Infinity or NaN.
C4_DegenerateRejected ==
    (runCount >= 1 /\ Degenerate(polygon0)) =>
        /\ promiseState = "rejected"
        /\ rejectReason = "DegenerateGeometryError"
        /\ CallSet \cap ImageQueryCalls = {}

\* C5: when first() yields no image the operation rejects with
\* NoImageFoundError, before any metadata read or thumbnail request.
C5_NoImageRejected ==
    (authResult = "ok" /\ firstResult \in {"null", "deferredEmpty"}) =>
        /\ promiseState = "rejected"
        /\ rejectReason = "NoImageFoundError"
        /\ "getInfo" \notin CallSet
        /\ "getThumbURL" \notin CallSet

\* C6: the caller's polygon array is never changed by the invocation.
C6_PolygonNotMutated == polygon = polygon0

IsRoundOf(x, n, d) ==
    /\ IsFin(x) /\ x.d = 1
    /\ 2 * x.n * d <= 2 * n + d
    /\ 2 * n + d < 2 * (x.n + 1) * d

C9_ClosureIdempotent ==
    (Area2(polygon0) # 0 /\ Len(centroidCalls) >= 1) =>
        /\ polygon = ClosedCopy(polygon0)
        /\ \A i \in 1..Len(centroidCalls) : centroidCalls[i] = centroidCalls[1]

C9_Witness ==
    /\ ~IsClosedSeq(polygon0)
    /\ Area2(polygon0) # 0
    /\ Len(centroidCalls) = 2

RingCoords(p) == [i \in 1..Len(p) |-> <<p[i].lng, p[i].lat>>]

====
